---- MODULE Spec2Model ----
(***************************************************************************)
(* The agent orchestrator of data-peek: the IPC handlers agent:start,      *)
(* agent:approve-tool, agent:decline-tool, agent:cancel, agent:get-session *)
(* and the run loop runAgentSession, together with the execute_query tool  *)
(* of createAgentTools and the statement loop of queryMultiple.            *)
(*                                                                         *)
(* The main process is one JavaScript event loop.  A handler runs to its   *)
(* end without interruption; a continuation that a handler schedules by    *)
(* resolving a promise is a microtask, and it runs before the next handler *)
(* or stream event.  The variable micro holds the session whose run loop   *)
(* has such a continuation queued; every other action waits for it.        *)
(***************************************************************************)
EXTENDS Integers, Sequences, FiniteSets, TLC

\* ------------------------------------------------------------------ bounds
MaxSteps == 2          \* tool calls the model issues in one session
MaxText == 1           \* text-delta chunks delivered in one session
MaxInFlight == 2       \* tool calls outstanding at once (parallel stream only)
TickMs == 30000        \* granularity of the passage of time
MaxWidgets == 3        \* widgets in one list handed to calculateLayout
MaxHeight == 2         \* largest widget height in such a list
MaxConcurrentSteps == 1 \* tool calls of each of two sessions run side by side
MaxDashboardSteps == 4  \* tool calls of one longer dashboard session
MaxLimit == 25          \* largest size of a limit given to sample_data
MaxRows == 102          \* most rows the adapter returns for one statement
MaxKeys == 2            \* most column names in a chart's yKeys
MaxNow == 3             \* milliseconds that pass while one session is followed

\* --------------------------------------------------------- program constants
GraceMs == 60000       \* setTimeout(..., 60000) in runAgentSession's finally
COLS == 12             \* const COLS = 12 in calculateLayout

SessionIds == {"s1"}

\* the ids crypto.randomUUID() hands out when two sessions are started
ConcurrentIds == {"s1", "s2"}

NoSession == "none"

VARIABLES
  activeSessions,   \* keys of the module-level Map activeSessions
  session,          \* the AgentSession object of each id (kept by the closure)
  pendingApproval,  \* ActiveSession.pendingApproval of each id
  pc,               \* where each run loop is suspended
  micro,            \* the session whose continuation is queued as a microtask
  outstanding,      \* tool calls of the stream whose tool-result is not delivered
  events,           \* everything broadcastAgentEvent sent, per session id
  dbLog,            \* every statement handed to the database client, per session
  timer,            \* ms left on the eviction timer, -1 when none is pending
  held,             \* lastStep and toolResult.sql captured by the suspended loop
  texts,            \* text-delta chunks delivered so far
  reply,            \* what the last IPC command returned
  pendingWidgets,   \* the widget buffer created by agent:start, per session
  broken,           \* the model stream of the session has failed underneath
  layoutCall,       \* one call of calculateLayout: its argument and its result
  toolRun,          \* one run of a tool's execute: its input and what it returned
  clock,            \* Date.now() and the startedAt the loop stamped, per session
  renderer          \* the renderer's agent store and the events delivered to it

agentVars == <<activeSessions, session, pendingApproval, pc, micro, outstanding,
               events, dbLog, timer, held, texts, reply, pendingWidgets, broken>>

vars == <<agentVars, layoutCall, toolRun, clock, renderer>>

\* ------------------------------------------------------------------- SQL text
\* A SQL text is a sequence of tokens: whitespace, keywords in either case,
\* and the statement separator.
Tokens == {"ws", "SELECT", "select", "DELETE", "delete", "DROP", ";"}

Upper(tok) ==
  CASE tok = "select" -> "SELECT"
    [] tok = "delete" -> "DELETE"
    [] OTHER -> tok

RECURSIVE SkipWs(_)
SkipWs(sql) ==
  IF sql # <<>> /\ Head(sql) = "ws" THEN SkipWs(Tail(sql)) ELSE sql

MutationKeywords == {"INSERT", "UPDATE", "DELETE", "DROP", "TRUNCATE", "ALTER"}

\* the test without its i flag
isMutationCaseSensitive(sql) ==
  LET rest == SkipWs(sql) IN rest # <<>> /\ Head(rest) \in MutationKeywords

\* /^\s*(INSERT|UPDATE|DELETE|DROP|TRUNCATE|ALTER)/i.test(sql)
isMutation(sql) ==
  LET rest == SkipWs(sql) IN rest # <<>> /\ Upper(Head(rest)) \in MutationKeywords

\* splitStatements(sql, 'sqlite'): the statements between separators.
RECURSIVE SplitFrom(_, _)
SplitFrom(sql, cur) ==
  IF sql = <<>> THEN (IF cur = <<>> THEN <<>> ELSE <<cur>>)
  ELSE IF Head(sql) = ";"
       THEN (IF cur = <<>> THEN <<>> ELSE <<cur>>) \o SplitFrom(Tail(sql), <<>>)
       ELSE SplitFrom(Tail(sql), Append(cur, Head(sql)))

splitSqliteStatements(sql) == SplitFrom(sql, <<>>)

SqlTexts ==
  { <<"SELECT">>, <<"DELETE">>, <<"ws", "delete">>, <<"SELECT", ";", "DROP">> }

\* ------------------------------------------------------------------ data model
Terminal == {"completed", "error", "cancelled"}

NoApproval == [stepId |-> 0, sql |-> <<>>, resolved |-> "none"]

NoHeld == [step |-> 0, sql |-> <<>>]

NoReply == [cmd |-> "none", sid |-> NoSession, success |-> FALSE, data |-> "none"]

NewSession ==
  [status |-> "running", steps |-> <<>>, finalMessage |-> FALSE, completedAt |-> FALSE]

Absent ==
  [status |-> "absent", steps |-> <<>>, finalMessage |-> FALSE, completedAt |-> FALSE]

ToolCalls ==
  [tool : {"execute_query"}, sql : SqlTexts]
    \cup [tool : {"get_schema"}, sql : {<<>>}]

\* chunk.input of a tool call the model built against the tool's inputSchema
\* wrongly: an object without the sql string
InvalidInput == <<"{}">>

\* the step object pushed at a tool-call chunk
NewStep(id, call) ==
  [id |-> id, toolName |-> call.tool, sql |-> call.sql, status |-> "running",
   result |-> "none", completedAt |-> FALSE, resolvedBy |-> "none"]

\* a loop that puts the new step in front of the others
PushStepFront(steps, step) == <<step>> \o steps

\* activeSession.session.steps.push(step)
PushStep(steps, step) == Append(steps, step)

Event(type, stepId, status) == [type |-> type, stepId |-> stepId, status |-> status]

Broadcast(s, ev) == events' = [events EXCEPT ![s] = Append(@, ev)]

LastIndex(s) == Len(session[s].steps)

NoLayoutCall == [widgets |-> <<>>, result |-> <<>>, returned |-> FALSE]

InitAgent ==
  /\ activeSessions = {}
  /\ session = [s \in ConcurrentIds |-> Absent]
  /\ pendingApproval = [s \in ConcurrentIds |-> NoApproval]
  /\ pc = [s \in ConcurrentIds |-> "none"]
  /\ micro = NoSession
  /\ outstanding = [s \in ConcurrentIds |-> {}]
  /\ events = [s \in ConcurrentIds |-> <<>>]
  /\ dbLog = [s \in ConcurrentIds |-> <<>>]
  /\ timer = [s \in ConcurrentIds |-> -1]
  /\ held = [s \in ConcurrentIds |-> NoHeld]
  /\ texts = [s \in ConcurrentIds |-> 0]
  /\ reply = NoReply
  /\ pendingWidgets = [s \in ConcurrentIds |-> <<>>]
  /\ broken = [s \in ConcurrentIds |-> FALSE]

NoToolRun == [tool |-> "none", input |-> <<>>, output |-> <<>>, returned |-> FALSE]

NoClock == [now |-> 0, startedAt |-> [s \in ConcurrentIds |-> <<>>]]

\* activeSession: null
NullSession ==
  [id |-> NoSession, status |-> "none", steps |-> <<>>, finalMessage |-> FALSE,
   completedAt |-> FALSE]

\* pendingApproval: null
NullApproval == [sessionId |-> NoSession, stepId |-> 0]

\* the store as create<AgentState> builds it
NewStore ==
  [activeSession |-> NullSession, pendingApproval |-> NullApproval,
   streamingText |-> 0, pendingWidgets |-> <<>>]

NoRenderer == [store |-> NewStore, delivered |-> [s \in ConcurrentIds |-> 0]]

Init ==
  /\ InitAgent
  /\ layoutCall = NoLayoutCall
  /\ toolRun = NoToolRun
  /\ clock = NoClock
  /\ renderer = NoRenderer

\* ------------------------------------------------------------ database adapter
\* One run of queryMultiple over a text of n statements: it hands the
\* statements to the client in order and throws at the first that fails.
AdapterRuns(sql) ==
  LET n == Len(splitSqliteStatements(sql))
  IN  {[ok |-> TRUE, sent |-> n]} \cup {[ok |-> FALSE, sent |-> k] : k \in 1..n}

Sent(stepId, sql, via, from, to) ==
  LET stmts == splitSqliteStatements(sql)
  IN  [i \in 1..(IF to >= from THEN to - from + 1 ELSE 0) |->
         [stepId |-> stepId, stmt |-> stmts[from + i - 1], via |-> via]]

NoRun == [ok |-> TRUE, sent |-> 0]

Max(a, b) == IF a >= b THEN a ELSE b

\* ------------------------------------------------------------- calculateLayout
\* a new row starts one line below the current one
RowAdvanceByOne(currentY, maxHeightInRow) == currentY + 1

\* currentY += maxHeightInRow
RowAdvance(currentY, maxHeightInRow) == currentY + maxHeightInRow

\* a widget that exactly fills the row wraps too
WrapsWhenFull(currentX, w) == currentX + w >= COLS

\* if (currentX + w > COLS)
Wraps(currentX, w) == currentX + w > COLS

\* widgets.map(...) with the cursor currentX, currentY, maxHeightInRow that the
\* callback keeps between widgets
RECURSIVE PlaceFrom(_, _, _, _)
PlaceFrom(widgets, currentX, currentY, maxHeightInRow) ==
  IF widgets = <<>> THEN <<>>
  ELSE LET widget == Head(widgets)
           wrap == Wraps(currentX, widget.w)
           x == IF wrap THEN 0 ELSE currentX
           y == IF wrap THEN RowAdvance(currentY, maxHeightInRow) ELSE currentY
           rowHeight == IF wrap THEN 0 ELSE maxHeightInRow
       IN  <<[widget EXCEPT !.x = x, !.y = y]>>
             \o PlaceFrom(Tail(widgets), x + widget.w, y, Max(rowHeight, widget.h))

calculateLayout(widgets) == PlaceFrom(widgets, 0, 0, 0)

\* ---------------------------------------------------------------- tool executor
\* the tools whose execute hands SQL to the adapter inside a try/catch
QueryTools == {"execute_query", "sample_data"}

\* sample_data builds one SELECT ... LIMIT statement from its table argument
SampleSql == <<"SELECT">>

\* the SQL text a tool call hands to queryMultiple
ToolSql(call) == IF call.tool = "sample_data" THEN SampleSql ELSE call.sql

\* What a tool's execute returns for a call, given how the adapter behaves.
ExecuteTool(call, run) ==
  IF call.tool = "execute_query" /\ isMutation(call.sql)
    THEN [requiresApproval |-> TRUE, result |-> "none", sent |-> 0]
  ELSE IF call.tool \in QueryTools
    THEN [requiresApproval |-> FALSE,
          result |-> IF run.ok THEN "ok" ELSE "fail", sent |-> run.sent]
  ELSE [requiresApproval |-> FALSE, result |-> "ok", sent |-> 0]

\* the adapter runs a tool call can meet: none when the tool does not reach it
ToolRuns(call) ==
  IF ExecuteTool(call, NoRun).requiresApproval \/ call.tool \notin QueryTools
    THEN {NoRun}
    ELSE AdapterRuns(ToolSql(call))

\* the layout a widget tool gives the widget it creates
WidgetTools == {"create_chart_widget", "create_kpi_widget", "create_table_widget"}

WidgetLayout(tool) ==
  CASE tool = "create_chart_widget" -> [x |-> 0, y |-> 0, w |-> 6, h |-> 4]
    [] tool = "create_kpi_widget" -> [x |-> 0, y |-> 0, w |-> 3, h |-> 2]
    [] tool = "create_table_widget" -> [x |-> 0, y |-> 0, w |-> 12, h |-> 4]

\* a save_dashboard that does not look at the buffer
SaveDashboardAlways(s) == [requiresApproval |-> FALSE, result |-> "ok", sent |-> 0]

\* save_dashboard: fails on an empty buffer, otherwise returns the buffer
\* laid out by calculateLayout
SaveDashboard(s) ==
  [requiresApproval |-> FALSE,
   result |-> IF pendingWidgets[s] = <<>> THEN "fail" ELSE "ok", sent |-> 0]

\* a push onto one array shared by every session
PushWidgetShared(s, widget) ==
  [b \in DOMAIN pendingWidgets |-> Append(pendingWidgets[b], widget)]

\* a calculateLayout that writes the positions into the widgets it is given
LayoutInPlace(widgets) == calculateLayout(widgets)

\* what calculateLayout leaves in the array it is given: widgets.map builds a
\* new array of new objects ({...widget, layout: {...}}), the argument is as
\* it was
LayoutArgumentAfter(widgets) == widgets

\* ctx.pendingWidgets.push(widget): ctx holds the array agent:start created
\* for this session
PushWidget(s, widget) == [pendingWidgets EXCEPT ![s] = Append(@, widget)]

Runs == [ok : BOOLEAN, sent : 0..2]

\* ------------------------------------------------------------------ agent:start
\* a handler that registers the session before it looks for the configuration
StartNotConfiguredRegisters ==
  /\ micro = NoSession
  /\ \E s \in SessionIds :
       session[s].status = "absent" /\ activeSessions' = activeSessions \cup {s}
  /\ reply' = [cmd |-> "start", sid |-> NoSession, success |-> FALSE, data |-> "none"]
  /\ UNCHANGED <<session, pendingApproval, pc, micro, outstanding,
                 events, dbLog, timer, held, texts,
                 pendingWidgets, broken, layoutCall, toolRun, clock, renderer>>

\* getAIConfig() returned nothing: the handler returns a failure and does
\* nothing else.
StartNotConfigured ==
  /\ micro = NoSession
  /\ reply' = [cmd |-> "start", sid |-> NoSession, success |-> FALSE, data |-> "none"]
  /\ UNCHANGED <<activeSessions, session, pendingApproval, pc, micro, outstanding,
                 events, dbLog, timer, held, texts,
                 pendingWidgets, broken, layoutCall, toolRun, clock, renderer>>

\* The handler creates the session, broadcasts session-started and calls
\* runAgentSession, which runs up to its await of createAgentStream.
StartHandler(s) ==
  /\ micro = NoSession
  /\ session[s].status = "absent"
  /\ session' = [session EXCEPT ![s] = NewSession]
  /\ activeSessions' = activeSessions \cup {s}
  /\ Broadcast(s, Event("session-started", 0, "none"))
  /\ pc' = [pc EXCEPT ![s] = "creating"]
  /\ micro' = s
  /\ reply' = [cmd |-> "start", sid |-> s, success |-> TRUE, data |-> "none"]
  /\ UNCHANGED <<pendingApproval, outstanding, dbLog, timer, held, texts,
                 pendingWidgets, broken, layoutCall, toolRun, clock>>

\* agent:start invoked from elsewhere than the store
Start(s) == StartHandler(s) /\ UNCHANGED renderer

\* createAgentStream returned: the loop awaits the first chunk.
StreamCreated(s) ==
  /\ micro = s
  /\ pc[s] = "creating"
  /\ pc' = [pc EXCEPT ![s] = "reading"]
  /\ micro' = NoSession
  /\ UNCHANGED <<activeSessions, session, pendingApproval, outstanding, events,
                 dbLog, timer, held, texts, reply,
                 pendingWidgets, broken, layoutCall, toolRun, clock, renderer>>

\* createAgentStream threw (createModel: unknown provider): runAgentSession
\* rejects before its try block, and the .catch of the start handler runs.
StreamCreateFailed(s) ==
  /\ micro = s
  /\ pc[s] = "creating"
  /\ pc' = [pc EXCEPT ![s] = "done"]
  /\ micro' = NoSession
  /\ IF s \in activeSessions
       THEN /\ session' = [session EXCEPT ![s].status = "error", ![s].completedAt = TRUE]
            /\ Broadcast(s, Event("complete", 0, "error"))
       ELSE UNCHANGED <<session, events>>
  /\ UNCHANGED <<activeSessions, pendingApproval, outstanding, dbLog, timer, held,
                 texts, reply,
                 pendingWidgets, broken, layoutCall, toolRun, clock, renderer>>

\* ------------------------------------------------------------- runAgentSession
\* chunk.type = 'tool-call': push a running step and broadcast agent:tool-call.
ReadToolCall(s, call) ==
  /\ micro = NoSession
  /\ pc[s] = "reading"
  /\ ~broken[s]
  /\ LET id == Len(session[s].steps) + 1 IN
       /\ session' = [session EXCEPT ![s].steps = PushStep(@, NewStep(id, call))]
       /\ Broadcast(s, Event("tool-call", id, "running"))
       /\ outstanding' = [outstanding EXCEPT ![s] = @ \cup {id}]
  /\ UNCHANGED <<activeSessions, pendingApproval, pc, micro, dbLog, timer, held,
                 texts, reply,
                 pendingWidgets, broken, layoutCall, toolRun, renderer>>

\* the same for a session of at most MaxSteps tool calls
ConsumeToolCall(s, call) ==
  /\ Len(session[s].steps) < MaxSteps
  /\ ReadToolCall(s, call)
  /\ UNCHANGED clock

\* The stream delivers a tool call when no other call is outstanding.
ToolCall(s, call) ==
  /\ outstanding[s] = {}
  /\ ConsumeToolCall(s, call)

\* The model issued several tool calls in one step: a tool-call chunk arrives
\* while an earlier call has no result yet.
ParallelToolCall(s, call) ==
  /\ outstanding[s] # {}
  /\ Cardinality(outstanding[s]) < MaxInFlight
  /\ ConsumeToolCall(s, call)

\* a loop that registers the approval and reads on without awaiting it
NoAwait == "reading"

\* const approved = await new Promise<boolean>(...): the loop is suspended
\* until the registered resolve is called
AwaitApproval == "waiting"

\* chunk.type = 'tool-result' for call k: the tool ran (run is how the adapter
\* behaved) and the loop records its output on lastStep.
ToolResult(s, k, run) ==
  /\ micro = NoSession
  /\ pc[s] = "reading"
  /\ ~broken[s]
  /\ k \in outstanding[s]
  /\ session[s].steps[k].sql # InvalidInput
  /\ LET call == [tool |-> session[s].steps[k].toolName, sql |-> session[s].steps[k].sql]
         out == IF call.tool = "save_dashboard" THEN SaveDashboard(s)
                                                ELSE ExecuteTool(call, run)
         last == LastIndex(s)
     IN
       /\ run \in ToolRuns(call)
       /\ layoutCall' = IF call.tool = "save_dashboard" /\ pendingWidgets[s] # <<>>
                           THEN [widgets |-> pendingWidgets[s],
                                 result |-> calculateLayout(pendingWidgets[s]),
                                 returned |-> TRUE]
                           ELSE layoutCall
       /\ dbLog' = [dbLog EXCEPT ![s] = @ \o Sent(k, ToolSql(call), "tool", 1, out.sent)]
       /\ pendingWidgets' = IF call.tool \in WidgetTools
                               THEN PushWidget(s, WidgetLayout(call.tool))
                             ELSE IF call.tool = "save_dashboard" /\ pendingWidgets[s] # <<>>
                               THEN [pendingWidgets EXCEPT ![s] = LayoutArgumentAfter(@)]
                               ELSE pendingWidgets
       /\ IF out.requiresApproval
            THEN /\ session' = [session EXCEPT ![s].steps[last].status = "requires_approval",
                                               ![s].status = "waiting_approval"]
                 /\ Broadcast(s, Event("requires-approval", last, "requires_approval"))
                 /\ pendingApproval' = [pendingApproval EXCEPT ![s] =
                                          [stepId |-> last, sql |-> call.sql, resolved |-> "no"]]
                 /\ held' = [held EXCEPT ![s] = [step |-> last, sql |-> call.sql]]
                 /\ pc' = [pc EXCEPT ![s] = AwaitApproval]
            ELSE /\ session' = [session EXCEPT
                                  ![s].steps[last].result = out.result,
                                  ![s].steps[last].status =
                                     IF out.result = "fail" THEN "error" ELSE "completed",
                                  ![s].steps[last].completedAt = TRUE]
                 /\ Broadcast(s, Event("tool-result", last,
                                       IF out.result = "fail" THEN "error" ELSE "completed"))
                 /\ UNCHANGED <<pendingApproval, held, pc>>
  /\ outstanding' = [outstanding EXCEPT ![s] = @ \ {k}]
  /\ UNCHANGED <<activeSessions, micro, timer, texts, reply, broken, toolRun, clock,
                 renderer>>

\* The input of call k failed the tool's inputSchema, so its execute never
\* runs and no tool-result chunk follows; the stream reports the failure in a
\* chunk of another type (or fails, StreamFail). The loop has a branch for
\* tool-call, tool-result and text-delta only: the chunk is read and dropped.
ToolError(s, k) ==
  /\ micro = NoSession
  /\ pc[s] = "reading"
  /\ ~broken[s]
  /\ k \in outstanding[s]
  /\ session[s].steps[k].sql = InvalidInput
  /\ outstanding' = [outstanding EXCEPT ![s] = @ \ {k}]
  /\ UNCHANGED <<activeSessions, session, pendingApproval, pc, micro, events, dbLog,
                 timer, held, texts, reply, pendingWidgets, broken, layoutCall, toolRun, clock, renderer>>

\* chunk.type = 'text-delta'
TextDelta(s) ==
  /\ micro = NoSession
  /\ pc[s] = "reading"
  /\ ~broken[s]
  /\ texts[s] < MaxText
  /\ texts' = [texts EXCEPT ![s] = @ + 1]
  /\ Broadcast(s, Event("text", 0, "none"))
  /\ UNCHANGED <<activeSessions, session, pendingApproval, pc, micro, outstanding,
                 dbLog, timer, held, reply,
                 pendingWidgets, broken, layoutCall, toolRun, clock, renderer>>

\* the agent:complete event of a completed session: widgets is
\* activeSession.pendingWidgets
CompleteEvent(s) ==
  [type |-> "complete", stepId |-> 0, status |-> "completed",
   widgets |-> pendingWidgets[s]]

\* The stream ends: the loop exits, the final text is awaited, the session is
\* marked completed and the eviction timer is set in the finally block.
StreamEnd(s) ==
  /\ micro = NoSession
  /\ pc[s] = "reading"
  /\ ~broken[s]
  /\ outstanding[s] = {}
  /\ session' = [session EXCEPT ![s].status = "completed",
                                ![s].finalMessage = TRUE,
                                ![s].completedAt = TRUE]
  /\ Broadcast(s, CompleteEvent(s))
  /\ timer' = [timer EXCEPT ![s] = GraceMs]
  /\ pc' = [pc EXCEPT ![s] = "done"]
  /\ UNCHANGED <<activeSessions, pendingApproval, micro, outstanding, dbLog, held,
                 texts, reply,
                 pendingWidgets, broken, layoutCall, toolRun, clock, renderer>>

\* Reading the stream throws (the stream fails now, or had failed while the
\* loop was not reading): the catch block marks the session error.
StreamFail(s) ==
  /\ micro = NoSession
  /\ pc[s] = "reading"
  /\ broken' = [broken EXCEPT ![s] = TRUE]
  /\ session' = [session EXCEPT ![s].status = "error", ![s].completedAt = TRUE]
  /\ Broadcast(s, Event("complete", 0, "error"))
  /\ timer' = [timer EXCEPT ![s] = GraceMs]
  /\ pc' = [pc EXCEPT ![s] = "done"]
  /\ UNCHANGED <<activeSessions, pendingApproval, micro, outstanding, dbLog, held,
                 texts, reply,
                 pendingWidgets, layoutCall, toolRun, clock, renderer>>

\* The model stream fails while the loop is suspended on the approval promise
\* or on the approved query: the loop meets the failure at its next read.
StreamBreak(s) ==
  /\ micro = NoSession
  /\ pc[s] \in {"waiting", "querying"}
  /\ ~broken[s]
  /\ broken' = [broken EXCEPT ![s] = TRUE]
  /\ UNCHANGED <<activeSessions, session, pendingApproval, pc, micro, outstanding,
                 events, dbLog, timer, held, texts, reply, pendingWidgets, layoutCall, toolRun, clock, renderer>>

\* ---------------------------------------------------------------- IPC commands
Failure(cmd, s) == [cmd |-> cmd, sid |-> s, success |-> FALSE, data |-> "none"]
Success(cmd, s) == [cmd |-> cmd, sid |-> s, success |-> TRUE, data |-> "none"]

\* Promise resolve: the first call settles the promise, later calls do nothing.
Resolve(p, v) == IF p.resolved = "no" THEN [p EXCEPT !.resolved = v] ELSE p

HasPending(s) == s \in activeSessions /\ pendingApproval[s] # NoApproval

\* agent:approve-tool / agent:decline-tool with nothing to resolve
ResolveRejected(s, cmd) ==
  /\ micro = NoSession
  /\ ~HasPending(s)
  /\ reply' = Failure(cmd, s)
  /\ UNCHANGED <<activeSessions, session, pendingApproval, pc, micro, outstanding,
                 events, dbLog, timer, held, texts,
                 pendingWidgets, broken, layoutCall, toolRun, clock, renderer>>

\* pendingApproval.resolve(v): settling the promise queues the suspended loop
\* to continue; on a promise already settled the call does nothing.
ResolvePending(s, cmd, v) ==
  /\ micro = NoSession
  /\ HasPending(s)
  /\ IF pendingApproval[s].resolved = "no"
       THEN /\ pendingApproval' = [pendingApproval EXCEPT ![s] = Resolve(@, v)]
            /\ session' = [session EXCEPT
                             ![s].steps[pendingApproval[s].stepId].resolvedBy = cmd]
            /\ pc' = [pc EXCEPT ![s] = "resuming"]
            /\ micro' = s
       ELSE UNCHANGED <<pendingApproval, session, pc, micro>>
  /\ reply' = Success(cmd, s)
  /\ UNCHANGED <<activeSessions, outstanding, events, dbLog, timer, held, texts,
                 pendingWidgets, broken, layoutCall, toolRun, clock>>

\* an approve that resolves the promise with false
ApproveValueDeclines == "declined"

\* agent:approve-tool: pendingApproval.resolve(true)
ApproveValue == "approved"

\* a decline that resolves the promise with true
DeclineValueApproves == "approved"

\* agent:decline-tool: pendingApproval.resolve(false)
DeclineValue == "declined"

Approve(s) == ResolvePending(s, "approve", ApproveValue) /\ UNCHANGED renderer

Decline(s) == ResolvePending(s, "decline", DeclineValue) /\ UNCHANGED renderer

ApproveRejected(s) == ResolveRejected(s, "approve")

DeclineRejected(s) == ResolveRejected(s, "decline")

\* a cancel that broadcasts agent:complete before it looks the session up
CancelNotFoundBroadcasts(s) ==
  /\ micro = NoSession
  /\ s \notin activeSessions
  /\ Broadcast(s, Event("complete", 0, "cancelled"))
  /\ reply' = Failure("cancel", s)
  /\ UNCHANGED <<activeSessions, session, pendingApproval, pc, micro, outstanding,
                 dbLog, timer, held, texts,
                 pendingWidgets, broken, layoutCall, toolRun, clock, renderer>>

\* agent:cancel for an id that is not in the table
CancelNotFound(s) ==
  /\ micro = NoSession
  /\ s \notin activeSessions
  /\ reply' = Failure("cancel", s)
  /\ UNCHANGED <<activeSessions, session, pendingApproval, pc, micro, outstanding,
                 events, dbLog, timer, held, texts,
                 pendingWidgets, broken, layoutCall, toolRun, clock, renderer>>

\* a cancel that resolves the pending approval with true
CancelValueApproves == "approved"

\* the value agent:cancel passes to pendingApproval.resolve
CancelValue == "declined"

\* a cancel that leaves the entry in the table
CancelEntriesKept(s) == activeSessions

\* activeSessions.delete(sessionId) at the end of agent:cancel
CancelEntries(s) == activeSessions \ {s}

\* agent:cancel on a session of the table: mark it cancelled, resolve a pending
\* approval, broadcast agent:complete and delete the entry.
CancelHandler(s) ==
  /\ micro = NoSession
  /\ s \in activeSessions
  /\ IF pendingApproval[s] # NoApproval /\ pendingApproval[s].resolved = "no"
       THEN /\ pendingApproval' = [pendingApproval EXCEPT ![s] = Resolve(@, CancelValue)]
            /\ session' = [session EXCEPT
                             ![s].status = "cancelled",
                             ![s].completedAt = TRUE,
                             ![s].steps[pendingApproval[s].stepId].resolvedBy = "cancel"]
            /\ pc' = [pc EXCEPT ![s] = "resuming"]
            /\ micro' = s
       ELSE /\ session' = [session EXCEPT ![s].status = "cancelled",
                                          ![s].completedAt = TRUE]
            /\ UNCHANGED <<pendingApproval, pc, micro>>
  /\ Broadcast(s, Event("complete", 0, "cancelled"))
  /\ activeSessions' = CancelEntries(s)
  /\ reply' = Success("cancel", s)
  /\ UNCHANGED <<outstanding, dbLog, timer, held, texts,
                 pendingWidgets, broken, layoutCall, toolRun, clock>>

\* agent:cancel invoked from elsewhere than the store
Cancel(s) == CancelHandler(s) /\ UNCHANGED renderer

\* a get that hands the session over and drops it from the table
GetSessionTakes(s) ==
  /\ micro = NoSession
  /\ reply' = IF s \in activeSessions
                THEN [cmd |-> "get", sid |-> s, success |-> TRUE, data |-> session[s]]
                ELSE Failure("get", s)
  /\ activeSessions' = activeSessions \ {s}
  /\ UNCHANGED <<session, pendingApproval, pc, micro, outstanding,
                 events, dbLog, timer, held, texts,
                 pendingWidgets, broken, layoutCall, toolRun, clock, renderer>>

\* agent:get-session
GetSession(s) ==
  /\ micro = NoSession
  /\ reply' = IF s \in activeSessions
                THEN [cmd |-> "get", sid |-> s, success |-> TRUE, data |-> session[s]]
                ELSE Failure("get", s)
  /\ UNCHANGED <<activeSessions, session, pendingApproval, pc, micro, outstanding,
                 events, dbLog, timer, held, texts,
                 pendingWidgets, broken, layoutCall, toolRun, clock, renderer>>

\* ------------------------------------------- runAgentSession after the approval
\* a loop that resumes without clearing the slot
StaleApproval(s) == pendingApproval[s]

\* activeSession.pendingApproval = undefined
ClearedApproval(s) == NoApproval

\* a loop that resumes without touching the status
ResumedStatusKept(s) == session[s].status

\* activeSession.session.status = 'running' right after the await
ResumedStatus(s) == "running"

\* a loop that records the step and then does not read the stream again
FinishStepNoRead(s, i, result, status, sessionStatus) ==
  /\ session' = [session EXCEPT ![s].status = sessionStatus,
                                ![s].steps[i].result = result,
                                ![s].steps[i].status = status,
                                ![s].steps[i].completedAt = TRUE]
  /\ Broadcast(s, Event("tool-result", i, status))
  /\ pc' = [pc EXCEPT ![s] = "stopped"]

\* lastStep gets its result, status and completedAt, and agent:tool-result is
\* broadcast; sessionStatus is what session.status holds at that point.
FinishStep(s, i, result, status, sessionStatus) ==
  /\ session' = [session EXCEPT ![s].status = sessionStatus,
                                ![s].steps[i].result = result,
                                ![s].steps[i].status = status,
                                ![s].steps[i].completedAt = TRUE]
  /\ Broadcast(s, Event("tool-result", i, status))
  /\ pc' = [pc EXCEPT ![s] = "reading"]

\* The approval promise settled with false: the step is completed as declined.
ResumeDeclined(s) ==
  /\ micro = s
  /\ pc[s] = "resuming"
  /\ pendingApproval[s].resolved # "approved"
  /\ pendingApproval' = [pendingApproval EXCEPT ![s] = ClearedApproval(s)]
  /\ FinishStep(s, held[s].step, "declined", "completed", ResumedStatus(s))
  /\ micro' = NoSession
  /\ UNCHANGED <<activeSessions, outstanding, dbLog, timer, held, texts, reply,
                 pendingWidgets, broken, layoutCall, toolRun, clock, renderer>>

\* The approval promise settled with true: queryMultiple is called with the
\* held SQL and hands its first statement to the client before it awaits.
ResumeApproved(s) ==
  /\ micro = s
  /\ pc[s] = "resuming"
  /\ pendingApproval[s].resolved = "approved"
  /\ pendingApproval' = [pendingApproval EXCEPT ![s] = ClearedApproval(s)]
  /\ session' = [session EXCEPT ![s].status = ResumedStatus(s)]
  /\ dbLog' = [dbLog EXCEPT ![s] = @ \o Sent(held[s].step, held[s].sql, "approved", 1, 1)]
  /\ pc' = [pc EXCEPT ![s] = "querying"]
  /\ micro' = NoSession
  /\ UNCHANGED <<activeSessions, outstanding, events, timer, held, texts, reply,
                 pendingWidgets, broken, layoutCall, toolRun, clock, renderer>>

\* queryMultiple for the held SQL returns or throws.
QueryDone(s, run) ==
  /\ micro = NoSession
  /\ pc[s] = "querying"
  /\ run \in AdapterRuns(held[s].sql)
  /\ dbLog' = [dbLog EXCEPT ![s] = @ \o Sent(held[s].step, held[s].sql, "approved", 2, run.sent)]
  /\ IF run.ok
       THEN FinishStep(s, held[s].step, "approved_ok", "completed", session[s].status)
       ELSE FinishStep(s, held[s].step, "approved_fail", "error", session[s].status)
  /\ UNCHANGED <<activeSessions, pendingApproval, micro, outstanding, timer, held,
                 texts, reply,
                 pendingWidgets, broken, layoutCall, toolRun, clock, renderer>>

\* ------------------------------------------------------------- eviction timer
Tick ==
  /\ micro = NoSession
  /\ \E s \in DOMAIN timer : timer[s] > 0
  /\ timer' = [s \in DOMAIN timer |-> IF timer[s] > 0 THEN Max(0, timer[s] - TickMs)
                                                     ELSE timer[s]]
  /\ UNCHANGED <<activeSessions, session, pendingApproval, pc, micro, outstanding,
                 events, dbLog, held, texts, reply,
                 pendingWidgets, broken, layoutCall, toolRun, clock, renderer>>

\* setTimeout callback: activeSessions.delete(sessionId)
TimerFire(s) ==
  /\ micro = NoSession
  /\ timer[s] = 0
  /\ activeSessions' = activeSessions \ {s}
  /\ timer' = [timer EXCEPT ![s] = -1]
  /\ UNCHANGED <<session, pendingApproval, pc, micro, outstanding, events, dbLog,
                 held, texts, reply,
                 pendingWidgets, broken, layoutCall, toolRun, clock, renderer>>

\* ---------------------------------------------------------------- specifications
Next ==
  \/ StartNotConfigured
  \/ \E s \in SessionIds : Start(s)
  \/ \E s \in SessionIds : StreamCreated(s)
  \/ \E s \in SessionIds : StreamCreateFailed(s)
  \/ \E s \in SessionIds, call \in ToolCalls : ToolCall(s, call)
  \/ \E s \in SessionIds, k \in 1..MaxSteps, run \in Runs : ToolResult(s, k, run)
  \/ \E s \in SessionIds : TextDelta(s)
  \/ \E s \in SessionIds : StreamEnd(s)
  \/ \E s \in SessionIds : StreamFail(s)
  \/ \E s \in SessionIds : Approve(s)
  \/ \E s \in SessionIds : Decline(s)
  \/ \E s \in SessionIds : ApproveRejected(s)
  \/ \E s \in SessionIds : DeclineRejected(s)
  \/ \E s \in SessionIds : Cancel(s)
  \/ \E s \in SessionIds : CancelNotFound(s)
  \/ \E s \in SessionIds : GetSession(s)
  \/ \E s \in SessionIds : ResumeDeclined(s)
  \/ \E s \in SessionIds : ResumeApproved(s)
  \/ \E s \in SessionIds, run \in Runs : QueryDone(s, run)
  \/ Tick
  \/ \E s \in SessionIds : TimerFire(s)

\* the model runner delivers each tool-result before the next tool-call
Spec == Init /\ [][Next]_vars

NextParallel ==
  \/ Next
  \/ \E s \in SessionIds, call \in ToolCalls : ParallelToolCall(s, call)

\* the model runner may also issue several tool calls at once
SpecParallel == Init /\ [][NextParallel]_vars

NextStreamFailure ==
  \/ Next
  \/ \E s \in SessionIds : StreamBreak(s)

\* the stream may also fail while the loop is not reading it
SpecStreamFailure == Init /\ [][NextStreamFailure]_vars

\* The handlers and the loop without the commands that only return a failure
\* or a copy of the session.
NextLive ==
  \/ \E s \in SessionIds : Start(s)
  \/ \E s \in SessionIds : StreamCreated(s)
  \/ \E s \in SessionIds : StreamCreateFailed(s)
  \/ \E s \in SessionIds, call \in ToolCalls : ToolCall(s, call)
  \/ \E s \in SessionIds, k \in 1..MaxSteps, run \in Runs : ToolResult(s, k, run)
  \/ \E s \in SessionIds : TextDelta(s)
  \/ \E s \in SessionIds : StreamEnd(s)
  \/ \E s \in SessionIds : StreamFail(s)
  \/ \E s \in SessionIds : Approve(s)
  \/ \E s \in SessionIds : Decline(s)
  \/ \E s \in SessionIds : Cancel(s)
  \/ \E s \in SessionIds : ResumeDeclined(s)
  \/ \E s \in SessionIds : ResumeApproved(s)
  \/ \E s \in SessionIds, run \in Runs : QueryDone(s, run)
  \/ Tick
  \/ \E s \in SessionIds : TimerFire(s)

\* The event loop runs every queued continuation; createAgentStream and the
\* adapter return or throw; the stream, bounded by stopWhen: stepCountIs(20),
\* delivers the results of its tool calls and then ends or fails; and a
\* pending approval is resolved by an approve, a decline or a cancel.
Fairness ==
  \A s \in SessionIds :
    /\ WF_vars(StreamCreated(s) \/ StreamCreateFailed(s))
    /\ WF_vars(ResumeDeclined(s) \/ ResumeApproved(s))
    /\ WF_vars(\E run \in Runs : QueryDone(s, run))
    /\ WF_vars(\E k \in 1..MaxSteps, run \in Runs : ToolResult(s, k, run))
    /\ WF_vars(StreamEnd(s) \/ StreamFail(s))
    /\ WF_vars(Approve(s) \/ Decline(s) \/ (HasPending(s) /\ Cancel(s)))

SpecLive == Init /\ [][NextLive]_vars /\ Fairness

\* a session in which the model explores the data: queries that run at once,
\* a query that is held for approval, and samples of a table, one or several
\* per model step
QueryCalls ==
  { [tool |-> "execute_query", sql |-> <<"SELECT">>],
    [tool |-> "execute_query", sql |-> <<"DELETE">>],
    [tool |-> "sample_data", sql |-> <<>>] }

NextQueryTools ==
  \/ \E s \in SessionIds : Start(s)
  \/ \E s \in SessionIds : StreamCreated(s)
  \/ \E s \in SessionIds, call \in QueryCalls : ToolCall(s, call)
  \/ \E s \in SessionIds, call \in QueryCalls : ParallelToolCall(s, call)
  \/ \E s \in SessionIds, k \in 1..MaxSteps, run \in Runs : ToolResult(s, k, run)
  \/ \E s \in SessionIds : TextDelta(s)
  \/ \E s \in SessionIds : StreamEnd(s)
  \/ \E s \in SessionIds : StreamFail(s)
  \/ \E s \in SessionIds : Approve(s)
  \/ \E s \in SessionIds : Decline(s)
  \/ \E s \in SessionIds : ResumeDeclined(s)
  \/ \E s \in SessionIds : ResumeApproved(s)
  \/ \E s \in SessionIds, run \in Runs : QueryDone(s, run)

SpecQueryTools == Init /\ [][NextQueryTools]_vars

\* the same session with one tool call per model step
NextQueryToolsSerial ==
  \/ \E s \in SessionIds : Start(s)
  \/ \E s \in SessionIds : StreamCreated(s)
  \/ \E s \in SessionIds, call \in QueryCalls : ToolCall(s, call)
  \/ \E s \in SessionIds, k \in 1..MaxSteps, run \in Runs : ToolResult(s, k, run)
  \/ \E s \in SessionIds : TextDelta(s)
  \/ \E s \in SessionIds : StreamEnd(s)
  \/ \E s \in SessionIds : StreamFail(s)
  \/ \E s \in SessionIds : Approve(s)
  \/ \E s \in SessionIds : Decline(s)
  \/ \E s \in SessionIds : ResumeDeclined(s)
  \/ \E s \in SessionIds : ResumeApproved(s)
  \/ \E s \in SessionIds, run \in Runs : QueryDone(s, run)

SpecQueryToolsSerial == Init /\ [][NextQueryToolsSerial]_vars

\* a session in which the model also gets the input of a call wrong
InvalidCalls ==
  { [tool |-> "execute_query", sql |-> InvalidInput],
    [tool |-> "execute_query", sql |-> <<"SELECT">>],
    [tool |-> "get_schema", sql |-> <<>>] }

NextInvalidInput ==
  \/ \E s \in SessionIds : Start(s)
  \/ \E s \in SessionIds : StreamCreated(s)
  \/ \E s \in SessionIds, call \in InvalidCalls : ToolCall(s, call)
  \/ \E s \in SessionIds, k \in 1..MaxSteps : ToolError(s, k)
  \/ \E s \in SessionIds, k \in 1..MaxSteps, run \in Runs : ToolResult(s, k, run)
  \/ \E s \in SessionIds : TextDelta(s)
  \/ \E s \in SessionIds : StreamEnd(s)
  \/ \E s \in SessionIds : StreamFail(s)
  \/ \E s \in SessionIds : Cancel(s)

SpecInvalidInput == Init /\ [][NextInvalidInput]_vars

\* a session in which the model builds a dashboard
DashboardCalls ==
  [tool : WidgetTools \cup {"save_dashboard"}, sql : {<<>>}]

NextDashboard ==
  \/ \E s \in SessionIds : Start(s)
  \/ \E s \in SessionIds : StreamCreated(s)
  \/ \E s \in SessionIds, call \in DashboardCalls : ToolCall(s, call)
  \/ \E s \in SessionIds, k \in 1..MaxSteps, run \in Runs : ToolResult(s, k, run)
  \/ \E s \in SessionIds : TextDelta(s)
  \/ \E s \in SessionIds : StreamEnd(s)
  \/ \E s \in SessionIds : StreamFail(s)
  \/ \E s \in SessionIds : Cancel(s)

SpecDashboard == Init /\ [][NextDashboard]_vars

\* a longer dashboard session: widgets of the three kinds and saves in any
\* order, one call per model step
DashboardToolCall(s, call) ==
  /\ Len(session[s].steps) < MaxDashboardSteps
  /\ outstanding[s] = {}
  /\ ReadToolCall(s, call)
  /\ UNCHANGED clock

NextSaveAgain ==
  \/ \E s \in SessionIds : Start(s)
  \/ \E s \in SessionIds : StreamCreated(s)
  \/ \E s \in SessionIds, call \in DashboardCalls : DashboardToolCall(s, call)
  \/ \E s \in SessionIds, k \in 1..MaxDashboardSteps, run \in Runs : ToolResult(s, k, run)
  \/ \E s \in SessionIds : StreamEnd(s)

SpecSaveAgain == Init /\ [][NextSaveAgain]_vars

\* two sessions started side by side; the model creates a widget or asks for
\* a mutating query
ConcurrentCalls ==
  { [tool |-> "create_kpi_widget", sql |-> <<>>],
    [tool |-> "execute_query", sql |-> <<"DELETE">>] }

ConcurrentToolCall(s, call) ==
  /\ Len(session[s].steps) < MaxConcurrentSteps
  /\ ToolCall(s, call)

NextConcurrent ==
  \/ \E s \in ConcurrentIds : Start(s)
  \/ \E s \in ConcurrentIds : StreamCreated(s)
  \/ \E s \in ConcurrentIds, call \in ConcurrentCalls : ConcurrentToolCall(s, call)
  \/ \E s \in ConcurrentIds, k \in 1..MaxSteps, run \in Runs : ToolResult(s, k, run)
  \/ \E s \in ConcurrentIds : TextDelta(s)
  \/ \E s \in ConcurrentIds : StreamEnd(s)
  \/ \E s \in ConcurrentIds : StreamFail(s)
  \/ \E s \in ConcurrentIds : Approve(s)
  \/ \E s \in ConcurrentIds : Decline(s)
  \/ \E s \in ConcurrentIds : Cancel(s)
  \/ \E s \in ConcurrentIds : ResumeDeclined(s)
  \/ \E s \in ConcurrentIds : ResumeApproved(s)
  \/ \E s \in ConcurrentIds, run \in Runs : QueryDone(s, run)

SpecConcurrent == Init /\ [][NextConcurrent]_vars

\* ------------------------------------------------- calculateLayout, applied
\* the widgets calculateLayout is applied to: each as a widget tool leaves it
\* (x = 0, y = 0), with a width of the grid and a positive height
WidgetShapes == [x : {0}, y : {0}, w : 1..COLS, h : 1..MaxHeight]

\* the caller collects one more widget for the list
CollectWidget(widget) ==
  /\ ~layoutCall.returned
  /\ Len(layoutCall.widgets) < MaxWidgets
  /\ layoutCall' = [layoutCall EXCEPT !.widgets = Append(@, widget)]
  /\ UNCHANGED <<agentVars, toolRun, clock, renderer>>

CallCalculateLayout ==
  /\ ~layoutCall.returned
  /\ layoutCall' = [layoutCall EXCEPT !.result = calculateLayout(layoutCall.widgets),
                                      !.returned = TRUE]
  /\ UNCHANGED <<agentVars, toolRun, clock, renderer>>

NextLayout ==
  \/ \E widget \in WidgetShapes : CollectWidget(widget)
  \/ CallCalculateLayout

\* calculateLayout applied once to each list
SpecLayout == Init /\ [][NextLayout]_vars

\* ------------------------------------------------- the renderer's agent store
\* a store that takes the events of any session once it has a session
AnySession(st, sid) == st.activeSession.id # NoSession

\* the guard of the event handlers, negated:
\* !activeSession || activeSession.id !== event.sessionId
SameSession(st, sid) == st.activeSession.id # NoSession /\ st.activeSession.id = sid

\* the step onToolCall appends
StoreStep(ev) == [id |-> ev.stepId, status |-> "running"]

\* activeSession.steps.map(...) of onToolResult
StoreUpdatedSteps(steps, ev) ==
  [i \in 1..Len(steps) |->
     IF steps[i].id = ev.stepId THEN [steps[i] EXCEPT !.status = ev.status] ELSE steps[i]]

\* event.widgets ?? []
EventWidgets(ev) == IF "widgets" \in DOMAIN ev THEN ev.widgets ELSE <<>>

\* The store after the handler subscribed for the event's channel ran.
StoreOnEvent(st, sid, ev) ==
  IF ~SameSession(st, sid) THEN st
  ELSE CASE ev.type = "session-started" ->
              [st EXCEPT !.activeSession.status = "running"]
         [] ev.type = "tool-call" ->
              [st EXCEPT !.activeSession.steps = Append(@, StoreStep(ev))]
         [] ev.type = "tool-result" ->
              [st EXCEPT !.activeSession.steps = StoreUpdatedSteps(@, ev)]
         [] ev.type = "requires-approval" ->
              [st EXCEPT !.pendingApproval = [sessionId |-> sid, stepId |-> ev.stepId],
                         !.activeSession.status = "waiting_approval"]
         [] ev.type = "text" ->
              [st EXCEPT !.streamingText = @ + 1]
         [] ev.type = "complete" ->
              [st EXCEPT !.activeSession.status = ev.status,
                         !.activeSession.finalMessage = (ev.status = "completed"),
                         !.activeSession.completedAt = TRUE,
                         !.pendingApproval = NullApproval,
                         !.pendingWidgets = EventWidgets(ev)]

\* The next event broadcast for session sid reaches the renderer and its
\* handler runs.
Deliver(sid) ==
  /\ renderer.delivered[sid] < Len(events[sid])
  /\ renderer' =
       [store |-> StoreOnEvent(renderer.store, sid, events[sid][renderer.delivered[sid] + 1]),
        delivered |-> [renderer.delivered EXCEPT ![sid] = @ + 1]]
  /\ UNCHANGED <<agentVars, layoutCall, toolRun, clock>>

\* startSession: the store is reset, agent:start is invoked and on success
\* the session it returned becomes the active one, running with no steps
StoreStartSession(s) ==
  /\ renderer.store.activeSession = NullSession
  /\ StartHandler(s)
  /\ renderer' = [renderer EXCEPT !.store =
                    [NewStore EXCEPT !.activeSession =
                       [NullSession EXCEPT !.id = s, !.status = "running"]]]

\* approveToolCall / declineToolCall: nothing without an active session and a
\* pending approval; on success pendingApproval is set to null
StoreResolve(s, cmd, v) ==
  /\ renderer.store.activeSession.id = s
  /\ renderer.store.pendingApproval # NullApproval
  /\ \/ /\ ResolvePending(s, cmd, v)
        /\ renderer' = [renderer EXCEPT !.store.pendingApproval = NullApproval]
     \/ ResolveRejected(s, cmd)

StoreApprove(s) == StoreResolve(s, "approve", ApproveValue)

StoreDecline(s) == StoreResolve(s, "decline", DeclineValue)

\* cancelSession: on success the active session becomes cancelled
StoreCancel(s) ==
  /\ renderer.store.activeSession.id = s
  /\ \/ /\ CancelHandler(s)
        /\ renderer' = [renderer EXCEPT !.store.activeSession.status = "cancelled",
                                        !.store.activeSession.completedAt = TRUE,
                                        !.store.pendingApproval = NullApproval]
     \/ CancelNotFound(s)

\* what the model calls in a session driven from the store
RendererCalls ==
  { [tool |-> "get_schema", sql |-> <<>>],
    [tool |-> "execute_query", sql |-> <<"DELETE">>] }

\* one session started, approved, declined and cancelled from the store
NextRenderer ==
  \/ \E s \in SessionIds : StoreStartSession(s)
  \/ \E s \in SessionIds : StreamCreated(s)
  \/ \E s \in SessionIds, call \in RendererCalls : ToolCall(s, call)
  \/ \E s \in SessionIds, k \in 1..MaxSteps, run \in Runs : ToolResult(s, k, run)
  \/ \E s \in SessionIds : TextDelta(s)
  \/ \E s \in SessionIds : StreamEnd(s)
  \/ \E s \in SessionIds : StreamFail(s)
  \/ \E s \in SessionIds : StoreApprove(s)
  \/ \E s \in SessionIds : StoreDecline(s)
  \/ \E s \in SessionIds : StoreCancel(s)
  \/ \E s \in SessionIds : ResumeDeclined(s)
  \/ \E s \in SessionIds : ResumeApproved(s)
  \/ \E s \in SessionIds, run \in Runs : QueryDone(s, run)
  \/ \E s \in SessionIds : Deliver(s)

SpecRenderer == Init /\ [][NextRenderer]_vars

\* the session of the store next to a session started from another window,
\* whose events reach the same store
StoreSessions == {"s1"}

ForeignSessions == {"s2"}

NextForeign ==
  \/ \E s \in StoreSessions : StoreStartSession(s)
  \/ \E s \in ForeignSessions : Start(s)
  \/ \E s \in ConcurrentIds : StreamCreated(s)
  \/ \E s \in ConcurrentIds, call \in ConcurrentCalls : ConcurrentToolCall(s, call)
  \/ \E s \in ConcurrentIds, k \in 1..MaxConcurrentSteps, run \in Runs : ToolResult(s, k, run)
  \/ \E s \in ConcurrentIds : TextDelta(s)
  \/ \E s \in ConcurrentIds : StreamEnd(s)
  \/ \E s \in ConcurrentIds : Deliver(s)

SpecForeign == Init /\ [][NextForeign]_vars

\* ------------------------------------------------------ the clock of the loop
\* a millisecond passes: Date.now() returns the next integer
Elapse ==
  /\ micro = NoSession
  /\ clock.now < MaxNow
  /\ clock' = [clock EXCEPT !.now = @ + 1]
  /\ UNCHANGED <<agentVars, layoutCall, toolRun, renderer>>

\* chunk.type = 'tool-call' with the step's startedAt: Date.now() kept; the
\* chunks of one model step follow each other with no await between them
StampedToolCall(s, call) ==
  /\ Len(session[s].steps) < MaxSteps
  /\ Cardinality(outstanding[s]) < MaxInFlight
  /\ ReadToolCall(s, call)
  /\ clock' = [clock EXCEPT !.startedAt[s] = Append(@, clock.now)]

ClockCalls ==
  { [tool |-> "get_schema", sql |-> <<>>],
    [tool |-> "execute_query", sql |-> <<"SELECT">>] }

NextClock ==
  \/ \E s \in SessionIds : Start(s)
  \/ \E s \in SessionIds : StreamCreated(s)
  \/ \E s \in SessionIds, call \in ClockCalls : StampedToolCall(s, call)
  \/ \E s \in SessionIds, k \in 1..MaxSteps, run \in Runs : ToolResult(s, k, run)
  \/ \E s \in SessionIds : StreamEnd(s)
  \/ Elapse

SpecClock == Init /\ [][NextClock]_vars

\* ------------------------------------------------------- tools, run directly
Min(a, b) == IF a <= b THEN a ELSE b

\* limit || 5: 0 is falsy
LimitOrDefault(limit) == IF limit = 0 THEN 5 ELSE limit

\* const safeLimit = Math.min(limit || 5, 20)
safeLimit(limit) == Min(LimitOrDefault(limit), 20)

\* sample_data({table, limit}): the row limit written into the SELECT
SampleDataRun(limit) ==
  /\ ~toolRun.returned
  /\ toolRun' = [tool |-> "sample_data", input |-> [limit |-> limit],
                 output |-> [limit |-> safeLimit(limit)], returned |-> TRUE]
  /\ UNCHANGED <<agentVars, layoutCall, clock, renderer>>

\* the rows of a statement's result, numbered in the adapter's order
AdapterRows(n) == [i \in 1..n |-> i]

\* a result that is handed on whole
SliceNothing(rows) == rows

\* rows.slice(0, 100)
Slice100(rows) == SubSeq(rows, 1, Min(Len(rows), 100))

\* firstResult?.rows.slice(0, 100) ?? []: results may hold no first result
TransportedRows(hasFirst, rows) == IF hasFirst THEN Slice100(rows) ELSE <<>>

\* execute_query run to its result, auto-executed by the tool or by the loop
\* after approval: the rows put in the step's result
ExecuteQueryRun(via, hasFirst, n) ==
  /\ ~toolRun.returned
  /\ toolRun' = [tool |-> "execute_query",
                 input |-> [via |-> via, hasFirst |-> hasFirst, rows |-> AdapterRows(n)],
                 output |-> [rows |-> TransportedRows(hasFirst, AdapterRows(n))],
                 returned |-> TRUE]
  /\ UNCHANGED <<agentVars, layoutCall, clock, renderer>>

\* the inputs of a chart call: xKey given or not, yKeys given or not, and how
\* many names yKeys holds
ChartInputs == [xKey : BOOLEAN, hasYKeys : BOOLEAN, yKeys : 0..MaxKeys]

\* the inputs of a KPI call: valueKey given or not
KpiInputs == [valueKey : BOOLEAN]

\* z.object({... xKey: z.string(), yKeys: z.array(z.string())}): both are
\* required, the array may have any length
ChartSchemaAccepts(input) == input.xKey /\ input.hasYKeys

\* z.object({... valueKey: z.string() ...})
KpiSchemaAccepts(input) == input.valueKey

\* the widget buffers a widget call may find
Buffers == {<<>>, <<WidgetLayout("create_table_widget")>>}

\* a widget tool called with an input: execute runs when the input passes the
\* inputSchema and pushes one widget
WidgetToolRun(tool, input, accepts, buffer) ==
  /\ ~toolRun.returned
  /\ toolRun' = [tool |-> tool,
                 input |-> [args |-> input, buffer |-> buffer],
                 output |-> [accepted |-> accepts,
                             buffer |-> IF accepts
                                          THEN Append(buffer, WidgetLayout(tool))
                                          ELSE buffer],
                 returned |-> TRUE]
  /\ UNCHANGED <<agentVars, layoutCall, clock, renderer>>

CreateChartRun(input, buffer) ==
  /\ input.hasYKeys \/ input.yKeys = 0
  /\ WidgetToolRun("create_chart_widget", input, ChartSchemaAccepts(input), buffer)

CreateKpiRun(input, buffer) ==
  WidgetToolRun("create_kpi_widget", input, KpiSchemaAccepts(input), buffer)

NextTools ==
  \/ \E limit \in (0 - MaxLimit)..MaxLimit : SampleDataRun(limit)
  \/ \E via \in {"tool", "approved"}, hasFirst \in BOOLEAN, n \in 0..MaxRows :
       ExecuteQueryRun(via, hasFirst, n)
  \/ \E input \in ChartInputs, buffer \in Buffers : CreateChartRun(input, buffer)
  \/ \E input \in KpiInputs, buffer \in Buffers : CreateKpiRun(input, buffer)

\* each tool run once on each input
SpecTools == Init /\ [][NextTools]_vars

\* -------------------------------------------------------------------- claims
Steps(s) == session[s].steps

StepIds(s) == 1..Len(Steps(s))

\* the statements handed to the database on behalf of step i of session s
SentFor(s, i) == {n \in 1..Len(dbLog[s]) : dbLog[s][n].stepId = i}

\* a SQL text that begins, after leading whitespace and in any letter case,
\* with one of the six keywords
BeginsWithMutatingKeyword(sql) ==
  \E i \in 1..Len(sql) :
    /\ \A j \in 1..(i - 1) : sql[j] = "ws"
    /\ Upper(sql[i]) \in {"INSERT", "UPDATE", "DELETE", "DROP", "TRUNCATE", "ALTER"}

CountEvents(s, type) ==
  Cardinality({n \in 1..Len(events[s]) : events[s][n].type = type})

\* agent:cancel has returned success for the session
CancelAccepted(s) ==
  \E n \in 1..Len(events[s]) :
    events[s][n].type = "complete" /\ events[s][n].status = "cancelled"

\* the events of a session other than agent:complete
StreamEvents(s) == SelectSeq(events[s], LAMBDA e : e.type # "complete")

\* C1: a step whose execute_query SQL begins with a mutating keyword never
\* reaches the adapter from the tool; once the tool has returned, the step is
\* (or has been) requires_approval; every statement sent for it was sent after
\* an approve; and a declined step has nothing sent for it.
C1_MutatingNeedsApproval ==
  \A s \in SessionIds : \A i \in StepIds(s) :
    LET step == Steps(s)[i] IN
      (step.toolName = "execute_query" /\ BeginsWithMutatingKeyword(step.sql)) =>
        /\ \A n \in SentFor(s, i) :
             dbLog[s][n].via = "approved" /\ step.resolvedBy = "approve"
        /\ i \notin outstanding[s] =>
             \/ step.status = "requires_approval"
             \/ step.result \in {"declined", "approved_ok", "approved_fail"}
        /\ step.resolvedBy \in {"decline", "cancel"} => SentFor(s, i) = {}

C1_Witness ==
  \E s \in SessionIds : \E i \in StepIds(s) :
    /\ Steps(s)[i].toolName = "execute_query"
    /\ Steps(s)[i].sql = <<"ws", "delete">>
    /\ Steps(s)[i].resolvedBy = "decline"
    /\ Steps(s)[i].result = "declined"
    /\ pc[s] = "done"

\* C2: a cancel accepted while the session is waiting_approval leaves the
\* status cancelled when the handler returns, and nothing is ever sent to the
\* database for the step whose approval the cancel resolved.
C2_CancelWhileWaiting ==
  /\ [][\A s \in SessionIds :
          (session[s].status = "waiting_approval" /\ ~CancelAccepted(s) /\ CancelAccepted(s)')
            => session'[s].status = "cancelled"]_vars
  /\ [](\A s \in SessionIds : \A i \in StepIds(s) :
          Steps(s)[i].resolvedBy = "cancel" => SentFor(s, i) = {})

C2_Witness ==
  \E s \in SessionIds : \E i \in StepIds(s) :
    /\ Steps(s)[i].resolvedBy = "cancel"
    /\ Steps(s)[i].status = "completed"
    /\ pc[s] = "done"

\* C3: a session in a terminal status has had exactly one agent:complete
\* event, and no session ever has two.
C3_ExactlyOneComplete ==
  \A s \in SessionIds :
    /\ CountEvents(s, "complete") <= 1
    /\ session[s].status \in Terminal => CountEvents(s, "complete") = 1

\* C4: once a session's status is completed, error or cancelled, no step
\* changes it.
C4_TerminalAbsorbing ==
  [][\A s \in SessionIds :
       session[s].status \in Terminal => session'[s].status = session[s].status]_vars

\* C5: once a cancel has been accepted for a session, no approve is accepted
\* for it and no held query is started for it; and every statement of a held
\* query was sent for a step an approve resolved.
ApprovedSteps(s) == {i \in StepIds(s) : Steps(s)[i].resolvedBy = "approve"}

C5_NoApproveAfterCancel ==
  /\ [][\A s \in SessionIds :
          CancelAccepted(s) =>
            /\ ApprovedSteps(s)' = ApprovedSteps(s)
            /\ pc'[s] = "querying" => pc[s] = "querying"]_vars
  /\ [](\A s \in SessionIds : \A n \in 1..Len(dbLog[s]) :
          dbLog[s][n].via = "approved" => dbLog[s][n].stepId \in ApprovedSteps(s))

C5_Witness ==
  \E s \in SessionIds :
    /\ CancelAccepted(s)
    /\ pc[s] = "waiting"
    /\ reply = Failure("approve", s)

\* C6: after a cancel has been accepted, the session gets no further step, no
\* further tool-call, tool-result, requires-approval or text event, and no
\* further statement is sent to the database for it.
C6_CancelStopsStream ==
  [][\A s \in SessionIds :
       CancelAccepted(s) =>
         /\ Len(Steps(s))' = Len(Steps(s))
         /\ StreamEvents(s)' = StreamEvents(s)
         /\ dbLog'[s] = dbLog[s]]_vars

\* C7: whenever a command can be handled, an approve or decline is accepted
\* only while the loop waits on an unsettled approval, so a second call is
\* rejected; each step gets at most one
\* tool-result; its outcome is the one the accepted call asked for; and the
\* held query is sent at most once.
C7_OneResolution ==
  \A s \in SessionIds :
    /\ (micro = NoSession /\ HasPending(s)) =>
         pc[s] = "waiting" /\ pendingApproval[s].resolved = "no"
    /\ \A i \in StepIds(s) :
         LET step == Steps(s)[i] IN
           /\ Cardinality({n \in 1..Len(events[s]) :
                 events[s][n].type = "tool-result" /\ events[s][n].stepId = i}) <= 1
           /\ step.result \in {"approved_ok", "approved_fail"} => step.resolvedBy = "approve"
           /\ step.result = "declined" => step.resolvedBy \in {"decline", "cancel"}
           /\ Cardinality(SentFor(s, i)) <= Len(splitSqliteStatements(step.sql))

C7_Witness ==
  \E s \in SessionIds : \E i \in StepIds(s) :
    /\ Steps(s)[i].resolvedBy = "approve"
    /\ pc[s] = "querying"
    /\ held[s].step = i
    /\ reply = Failure("decline", s)

\* C8: no session has two steps that are running or requires_approval.
ActiveSteps(s) ==
  {i \in StepIds(s) : Steps(s)[i].status \in {"running", "requires_approval"}}

C8_AtMostOneActiveStep ==
  \A s \in SessionIds : Cardinality(ActiveSteps(s)) <= 1

\* C9: every data- or schema-altering statement the adapter is handed was
\* sent by the approved path of the run loop.
C9_AlteringOnlyAfterApproval ==
  \A s \in SessionIds : \A n \in 1..Len(dbLog[s]) :
    BeginsWithMutatingKeyword(dbLog[s][n].stmt) => dbLog[s][n].via = "approved"

\* C10: the entry of a session leaves the live-session table only when its
\* 60-second timer fires, so a session that reached a terminal status stays
\* readable until then.
C10_RetainedUntilTimer ==
  [][\A s \in SessionIds :
       (s \in activeSessions /\ s \notin activeSessions')
         => (timer[s] = 0 /\ timer'[s] = -1)]_vars

\* C11: a session of the live-session table whose status is terminal has its
\* eviction pending (the timer that removes it is set), so it is removed once
\* the grace window has passed.
C11_EvictionScheduled ==
  \A s \in SessionIds :
    (s \in activeSessions /\ session[s].status \in Terminal) => timer[s] >= 0

\* C12: for a list of widgets with widths in 1..12 and heights of at least 1,
\* any two rectangles of the packer's output, A placed before B, do not
\* overlap: A ends at or left of B's start, or their row ranges are disjoint.
Placed == layoutCall.result

RowsDisjoint(a, b) == a.y + a.h <= b.y \/ b.y + b.h <= a.y

C12_NoOverlap ==
  (/\ layoutCall.returned
   /\ \A i \in 1..Len(layoutCall.widgets) :
        layoutCall.widgets[i].w \in 1..12 /\ layoutCall.widgets[i].h >= 1)
    => \A i, j \in 1..Len(Placed) :
         i < j => (Placed[i].x + Placed[i].w <= Placed[j].x
                     \/ RowsDisjoint(Placed[i], Placed[j]))

C12_Witness ==
  /\ layoutCall.returned
  /\ Len(Placed) = 3
  /\ Placed[1].h = 1 /\ Placed[2].h = 2
  /\ Placed[1].y = Placed[2].y
  /\ Placed[3].y = 2 /\ Placed[3].x = 0

\* C13: the output has the input's widgets in input order; the first is at
\* (0, 0); each later widget wraps to x = 0 and to the row below (the
\* previous row's y plus that row's largest height) exactly when the cursor
\* plus its width exceeds 12, and otherwise sits right of the previous one in
\* the same row; widths 6, 6, 12 give (0,0), (6,0), (0, height of row 1).
RowHeightAt(i) ==
  LET row == {j \in 1..i : Placed[j].y = Placed[i].y}
  IN  CHOOSE h \in {Placed[j].h : j \in row} : \A j \in row : Placed[j].h <= h

C13_SinglePassCursor ==
  layoutCall.returned =>
    /\ Len(Placed) = Len(layoutCall.widgets)
    /\ \A i \in 1..Len(Placed) :
         /\ Placed[i].w = layoutCall.widgets[i].w
         /\ Placed[i].h = layoutCall.widgets[i].h
         /\ i = 1 => Placed[i].x = 0 /\ Placed[i].y = 0
         /\ i > 1 =>
              LET prev == Placed[i - 1] IN
                IF prev.x + prev.w + Placed[i].w > 12
                  THEN Placed[i].x = 0 /\ Placed[i].y = prev.y + RowHeightAt(i - 1)
                  ELSE Placed[i].x = prev.x + prev.w /\ Placed[i].y = prev.y
    /\ (/\ Len(Placed) = 3
        /\ Placed[1].w = 6 /\ Placed[2].w = 6 /\ Placed[3].w = 12)
         => /\ Placed[1].x = 0 /\ Placed[1].y = 0
            /\ Placed[2].x = 6 /\ Placed[2].y = 0
            /\ Placed[3].x = 0 /\ Placed[3].y = Max(Placed[1].h, Placed[2].h)

C13_Witness ==
  /\ layoutCall.returned
  /\ Len(Placed) = 3
  /\ Placed[1].w = 6 /\ Placed[2].w = 6 /\ Placed[3].w = 12
  /\ Placed[1].h = 2 /\ Placed[2].h = 1
  /\ Placed[2].x = 6 /\ Placed[3].y = 2

\* C14: with two sessions side by side, a step taken for session a (a stream
\* event delivered to its loop, a tool executed for it, a command addressed
\* to it) leaves the status, steps, widget buffer and pending approval of any
\* other session b as they were; and a session's widget buffer holds exactly
\* one widget for each widget tool its own steps have run.
SessionState(b) == <<session[b], pendingWidgets[b], pendingApproval[b]>>

ActsFor(a) ==
  \/ events'[a] # events[a]
  \/ pc'[a] # pc[a]
  \/ outstanding'[a] # outstanding[a]
  \/ reply' # reply /\ reply'.sid = a

WidgetStepsDone(s) ==
  {i \in StepIds(s) : Steps(s)[i].toolName \in WidgetTools /\ Steps(s)[i].result = "ok"}

C14_SessionsIsolated ==
  /\ [][\A a, b \in ConcurrentIds :
          (a # b /\ ActsFor(a)) => SessionState(b)' = SessionState(b)]_vars
  /\ [](\A s \in ConcurrentIds :
          Len(pendingWidgets[s]) = Cardinality(WidgetStepsDone(s)))

C14_Witness ==
  /\ Len(pendingWidgets["s1"]) = 1
  /\ pendingWidgets["s2"] = <<>>
  /\ CancelAccepted("s1")
  /\ session["s2"].status = "waiting_approval"
  /\ HasPending("s2")

\* C15: in the events of one session, session-started comes first; every
\* tool-result of a step comes after that step's tool-call; a
\* requires-approval of a step lies after its tool-call and before its
\* tool-result; and the tool-call of a step comes after a tool-result of the
\* step before it.
EventAt(s, n, type, stepId) ==
  events[s][n].type = type /\ events[s][n].stepId = stepId

C15_EventsOrdered ==
  \A s \in SessionIds : \A n \in 1..Len(events[s]) :
    LET e == events[s][n] IN
      /\ (n = 1) <=> (e.type = "session-started")
      /\ e.type = "tool-result" =>
           \E m \in 1..(n - 1) : EventAt(s, m, "tool-call", e.stepId)
      /\ e.type = "requires-approval" =>
           /\ \E m \in 1..(n - 1) : EventAt(s, m, "tool-call", e.stepId)
           /\ \A m \in 1..(n - 1) : ~EventAt(s, m, "tool-result", e.stepId)
      /\ (e.type = "tool-call" /\ e.stepId > 1) =>
           \E m \in 1..(n - 1) : EventAt(s, m, "tool-result", e.stepId - 1)

\* C16: a decline is accepted only for a session that is waiting_approval,
\* and it queues the loop to resume; when the loop resumes, the pending step
\* becomes completed with the declined result, the pending approval is
\* cleared, the status is running again, a tool-result event for the step is
\* broadcast and the loop reads the stream again; nothing is ever sent to the
\* database for a declined step.
ResolvedNow(s, i, cmd) ==
  Steps(s)[i].resolvedBy = "none" /\ Steps(s)[i].resolvedBy' = cmd

Resuming(s, i, cmd) ==
  micro = s /\ pc[s] = "resuming" /\ held[s].step = i /\ Steps(s)[i].resolvedBy = cmd

C16_DeclineResumes ==
  /\ [][\A s \in SessionIds : \A i \in StepIds(s) :
          /\ ResolvedNow(s, i, "decline") =>
                /\ session[s].status = "waiting_approval"
                /\ Steps(s)[i].status = "requires_approval"
                /\ micro' = s /\ pc'[s] = "resuming" /\ held[s].step = i
          /\ Resuming(s, i, "decline") =>
                /\ Steps(s)[i].status' = "completed"
                /\ Steps(s)[i].result' = "declined"
                /\ pendingApproval'[s] = NoApproval
                /\ session'[s].status = "running"
                /\ events'[s] = Append(events[s], Event("tool-result", i, "completed"))
                /\ pc'[s] = "reading"
                /\ dbLog'[s] = dbLog[s]]_vars
  /\ [](\A s \in SessionIds : \A i \in StepIds(s) :
          /\ Steps(s)[i].resolvedBy = "decline" => SentFor(s, i) = {}
          /\ Resuming(s, i, "decline") => ENABLED ResumeDeclined(s))

C16_Witness ==
  \E s \in SessionIds : \E i \in StepIds(s) :
    /\ Steps(s)[i].resolvedBy = "decline"
    /\ Steps(s)[i].status = "completed"
    /\ Steps(s)[i].result = "declined"
    /\ session[s].status = "running"
    /\ pendingApproval[s] = NoApproval
    /\ pc[s] = "reading"
    /\ events[s][Len(events[s])] = Event("tool-result", i, "completed")

\* C17: an approve is accepted only for a session that is waiting_approval,
\* and it queues the loop to resume; when the loop resumes, the pending
\* approval is cleared, the status is running again and the adapter is called
\* with the held SQL; when the adapter returns the step is completed with the
\* approved result, when it throws the step is error, and in both cases a
\* tool-result event is broadcast, the status is left as it was (running
\* unless a cancel came meanwhile) and the loop reads the stream again.  The
\* statements sent for an approved step are the held SQL's statements, in
\* order, each once.
SentSeq(s, i) == SelectSeq(dbLog[s], LAMBDA e : e.stepId = i)

C17_ApproveExecutesOnce ==
  /\ [][\A s \in SessionIds : \A i \in StepIds(s) :
          /\ ResolvedNow(s, i, "approve") =>
                /\ session[s].status = "waiting_approval"
                /\ Steps(s)[i].status = "requires_approval"
                /\ micro' = s /\ pc'[s] = "resuming" /\ held[s].step = i
          /\ Resuming(s, i, "approve") =>
                /\ pendingApproval'[s] = NoApproval
                /\ session'[s].status = "running"
                /\ pc'[s] = "querying"
                /\ SentSeq(s, i) = <<>> /\ Len(SentSeq(s, i)') = 1
          /\ (pc[s] = "querying" /\ held[s].step = i /\ pc'[s] # "querying") =>
                /\ \/ Steps(s)[i].status' = "completed" /\ Steps(s)[i].result' = "approved_ok"
                   \/ Steps(s)[i].status' = "error" /\ Steps(s)[i].result' = "approved_fail"
                /\ events'[s] = Append(events[s], Event("tool-result", i, Steps(s)[i].status'))
                /\ session'[s].status = session[s].status
                /\ ~CancelAccepted(s) => session'[s].status = "running"
                /\ pc'[s] = "reading"]_vars
  /\ [](\A s \in SessionIds : \A i \in StepIds(s) :
          LET step == Steps(s)[i]
              stmts == splitSqliteStatements(step.sql)
              sent == SentSeq(s, i)
          IN  /\ Resuming(s, i, "approve") => ENABLED ResumeApproved(s)
              /\ (step.resolvedBy = "approve" /\ ~Resuming(s, i, "approve")) =>
                    /\ Len(sent) \in 1..Len(stmts)
                    /\ \A n \in 1..Len(sent) :
                         sent[n].stmt = stmts[n] /\ sent[n].via = "approved"
                    /\ step.result = "approved_ok" => Len(sent) = Len(stmts))

C17_Witness ==
  \E s \in SessionIds : \E i \in StepIds(s) :
    /\ Steps(s)[i].resolvedBy = "approve"
    /\ Steps(s)[i].status = "error"
    /\ Steps(s)[i].result = "approved_fail"
    /\ Len(SentSeq(s, i)) = 1
    /\ session[s].status = "running"
    /\ pc[s] = "reading"

\* C18: when the loop meets the failure of the stream, the status becomes
\* error and one agent:complete event with status error is broadcast; and
\* from the moment the stream has failed, in running or in waiting_approval,
\* no step is appended and no statement is sent to the database for the
\* session.
C18_StreamFailureIsFatal ==
  [][\A s \in SessionIds :
       /\ (pc[s] = "reading" /\ broken'[s] /\ pc'[s] = "done") =>
             /\ session'[s].status = "error"
             /\ events'[s] = Append(events[s], Event("complete", 0, "error"))
       /\ broken[s] =>
             /\ Len(Steps(s))' = Len(Steps(s))
             /\ dbLog'[s] = dbLog[s]]_vars

\* C19: a start that finds no AI configuration returns a failure and changes
\* nothing else: no entry in the live-session table, no session object, no
\* event, no run loop and so no model stream.
Returned(cmd, success) ==
  reply' # reply /\ reply'.cmd = cmd /\ reply'.success = success

C19_StartNotConfigured ==
  [][Returned("start", FALSE) =>
       /\ reply'.sid = NoSession
       /\ UNCHANGED <<activeSessions, session, pendingApproval, pc, micro, outstanding,
                      events, dbLog, timer, held, texts, pendingWidgets, broken>>]_vars

C19_Witness ==
  /\ reply = [cmd |-> "start", sid |-> NoSession, success |-> FALSE, data |-> "none"]
  /\ \E s \in SessionIds :
       /\ activeSessions = {s}
       /\ pc[s] = "waiting"
       /\ events[s][Len(events[s])].type = "requires-approval"

\* C20: an approve or decline for a session with no outstanding approval or
\* not in the table, and a cancel or getSession for an id not in the table,
\* return a failure; and every command that returns a failure broadcasts no
\* event and leaves the table, every session and every run loop unchanged.
C20_NoTargetNoEffect ==
  [][/\ \A cmd \in {"approve", "decline"} : \A ok \in BOOLEAN :
          (Returned(cmd, ok) /\ ~HasPending(reply'.sid)) => ~ok
     /\ \A cmd \in {"cancel", "get"} : \A ok \in BOOLEAN :
          (Returned(cmd, ok) /\ reply'.sid \notin activeSessions) => ~ok
     /\ \A cmd \in {"approve", "decline", "cancel", "get"} :
          Returned(cmd, FALSE) =>
            UNCHANGED <<activeSessions, session, pendingApproval, pc, micro,
                        outstanding, events, dbLog, timer, held, texts,
                        pendingWidgets, broken>>]_vars

C20_Witness ==
  \E s \in SessionIds :
    /\ reply = Failure("get", s)
    /\ s \notin activeSessions
    /\ session[s].status = "completed"
    /\ timer[s] = -1

\* C21: with a bounded stream, a fair event loop and every pending approval
\* resolved, a session that has been started reaches the status completed,
\* error or cancelled.
C21_ReachesTerminal ==
  \A s \in SessionIds : (pc[s] = "creating") ~> (session[s].status \in Terminal)

C21_Witness ==
  \E s \in SessionIds : \E i \in StepIds(s) :
    /\ session[s].status = "completed"
    /\ Steps(s)[i].resolvedBy = "approve"
    /\ Len(Steps(s)) = MaxSteps
    /\ ~CancelAccepted(s)

\* C22: the widgets carried by the agent:complete event of a completed
\* session are the session's widget buffer as calculateLayout places it, in
\* buffer order.
C22_CompleteCarriesLayout ==
  \A s \in SessionIds : \A n \in 1..Len(events[s]) :
    (events[s][n].type = "complete" /\ events[s][n].status = "completed")
      => events[s][n].widgets = calculateLayout(pendingWidgets[s])

\* C23: no step of a session is removed or moved and none has its id, tool
\* name or arguments changed; the list grows by one step at its end exactly
\* when a tool-call event is consumed, and not otherwise.
C23_StepsAppendOnly ==
  /\ [][\A s \in SessionIds :
          /\ \A i \in StepIds(s) :
               /\ i <= Len(Steps(s)')
               /\ Steps(s)[i].id' = Steps(s)[i].id
               /\ Steps(s)[i].toolName' = Steps(s)[i].toolName
               /\ Steps(s)[i].sql' = Steps(s)[i].sql
          /\ IF CountEvents(s, "tool-call")' = CountEvents(s, "tool-call") + 1
               THEN Len(Steps(s)') = Len(Steps(s)) + 1
               ELSE /\ Len(Steps(s)') = Len(Steps(s))
                    /\ CountEvents(s, "tool-call")' = CountEvents(s, "tool-call")]_vars
  /\ [](\A s \in SessionIds : Len(Steps(s)) = CountEvents(s, "tool-call"))

C23_Witness ==
  \E s \in SessionIds :
    /\ Len(Steps(s)) = 2
    /\ Steps(s)[1].toolName = "get_schema" /\ Steps(s)[1].status = "running"
    /\ Steps(s)[2].toolName = "execute_query" /\ Steps(s)[2].status = "completed"

\* C24: a getSession changes nothing but what it returns; what it returns is
\* determined by the state it is called in (a failure for an id not in the
\* table, otherwise the session object of that id), so a second call in the
\* same state returns the same data.
GetReplyIsCurrent ==
  /\ reply.success = (reply.sid \in activeSessions)
  /\ reply.success => reply.data = session[reply.sid]

C24_GetSessionPure ==
  /\ [][(reply' # reply /\ reply'.cmd = "get") =>
          /\ UNCHANGED <<activeSessions, session, pendingApproval, pc, micro,
                         outstanding, events, dbLog, timer, held, texts,
                         pendingWidgets, broken>>
          /\ GetReplyIsCurrent']_vars
  /\ [](\A s \in SessionIds :
          (reply.cmd = "get" /\ reply.sid = s /\ GetReplyIsCurrent /\ micro = NoSession)
            => ~ENABLED (GetSession(s) /\ reply' # reply))

C24_Witness ==
  \E s \in SessionIds :
    /\ reply.cmd = "get" /\ reply.sid = s /\ reply.success
    /\ reply.data = session[s]
    /\ reply.data.status = "waiting_approval"
    /\ Len(reply.data.steps) = 2
    /\ HasPending(s)

\* C25: a session whose run loop is suspended on a registered pending
\* approval is in the live-session table, where an approve, decline or cancel
\* for its id finds it.
C25_WaitingIsReachable ==
  \A s \in SessionIds :
    (pc[s] = "waiting" /\ pendingApproval[s] # NoApproval) => s \in activeSessions

\* C26: when the stream delivers the tool-result of call k, the outcome is
\* recorded on step k, the step that call created, and no other step changes;
\* and a step whose status is completed or error is never written again.
C26_ResultOnItsStep ==
  [][\A s \in SessionIds :
       /\ \A k \in outstanding[s] :
            k \notin outstanding'[s] =>
              /\ Steps(s)[k]' # Steps(s)[k]
              /\ \A i \in StepIds(s) : i # k => Steps(s)[i]' = Steps(s)[i]
       /\ \A i \in StepIds(s) :
            Steps(s)[i].status \in {"completed", "error"} =>
              Steps(s)[i]' = Steps(s)[i]]_vars

\* C27: whenever no continuation of the loop is queued, a session whose
\* status is completed, error or cancelled has no step that is running or
\* requires_approval.
C27_TerminalHasNoActiveStep ==
  \A s \in SessionIds :
    (micro = NoSession /\ session[s].status \in Terminal) => ActiveSteps(s) = {}

\* C28: whenever no continuation of the loop is queued, a session's status is
\* waiting_approval exactly when a pending approval is registered for it;
\* the registered approval then names the session's last step, which is
\* requires_approval; and an approval is registered only while the loop is
\* suspended on it, unresolved.
C28_WaitingIffPending ==
  \A s \in SessionIds :
    micro = NoSession =>
      /\ (session[s].status = "waiting_approval") <=> (pendingApproval[s] # NoApproval)
      /\ pendingApproval[s] # NoApproval =>
           /\ pendingApproval[s].stepId = LastIndex(s)
           /\ Steps(s)[LastIndex(s)].id = pendingApproval[s].stepId
           /\ Steps(s)[LastIndex(s)].status = "requires_approval"
      /\ pendingApproval[s] # NoApproval =>
           pc[s] = "waiting" /\ pendingApproval[s].resolved = "no"

C28_Witness ==
  \E s \in SessionIds :
    /\ micro = NoSession
    /\ session[s].status = "waiting_approval"
    /\ Len(Steps(s)) = 2
    /\ Steps(s)[1].resolvedBy = "decline"
    /\ pendingApproval[s].stepId = 2
    /\ Steps(s)[2].status = "requires_approval"

\* the step of a failed database run is the only step written: it is error
\* with the failure as its result, the session stays running, agent:tool-result
\* is broadcast for it and the loop goes on reading the stream
FailureStaysOnStep(s, k, result) ==
  /\ Steps(s)[k]'.status = "error"
  /\ Steps(s)[k]'.result = result
  /\ \A i \in StepIds(s) \ {k} : Steps(s)[i]' = Steps(s)[i]
  /\ session'[s].status = "running"
  /\ events'[s] = Append(events[s], Event("tool-result", k, "error"))
  /\ pc'[s] = "reading"
  /\ ~broken'[s]

\* C29: when the database fails under a tool (the tool-result of call k of an
\* auto-executed execute_query or a sample_data, or the run of an approved
\* held query), only the step of that call is marked error, with the failure
\* as its result; the session's status stays running, agent:tool-result is
\* broadcast for the step, and the loop keeps reading the stream.
C29_DatabaseFailurePerStep ==
  [][\A s \in SessionIds :
       /\ \A k \in 1..MaxSteps, run \in Runs :
            (ToolResult(s, k, run) /\ ~run.ok) => FailureStaysOnStep(s, k, "fail")
       /\ \A run \in Runs :
            (QueryDone(s, run) /\ ~run.ok) =>
              FailureStaysOnStep(s, held[s].step, "approved_fail")]_vars

\* C30: when the stream reports that the input of call k failed validation,
\* the step of that call is marked error with the validation message as its
\* result, no other step changes, the session's status stays running and the
\* loop keeps reading the stream.
C30_InvalidInputPerStep ==
  [][\A s \in SessionIds, k \in 1..MaxSteps :
       ToolError(s, k) =>
         /\ Steps(s)[k]'.status = "error"
         /\ Steps(s)[k]'.result # "none"
         /\ \A i \in StepIds(s) \ {k} : Steps(s)[i]' = Steps(s)[i]
         /\ session'[s].status = "running"
         /\ pc'[s] = "reading"]_vars

C32_CompletedAtIffTerminal ==
  /\ [](\A s \in SessionIds :
          micro = NoSession =>
            (session[s].completedAt <=> session[s].status \in Terminal))
  /\ [][\A s \in SessionIds :
          session'[s].finalMessage # session[s].finalMessage =>
            /\ ~session[s].finalMessage
            /\ session'[s].status = "completed"]_vars

\* the tool-result of call k, a save_dashboard, is delivered in this step
SaveDashboardReturns(s, k) ==
  /\ k \in outstanding[s]
  /\ k \notin outstanding'[s]
  /\ Steps(s)[k].toolName = "save_dashboard"

\* C33: save_dashboard on an empty widget buffer returns a failure, does not
\* call calculateLayout and leaves the buffer empty; on a non-empty buffer it
\* returns success with the result of calculateLayout on the buffer, which
\* has exactly one widget per buffered widget, of the same size.
C33_SaveDashboardOutcome ==
  [][\A s \in SessionIds, k \in 1..MaxSteps :
       SaveDashboardReturns(s, k) =>
         IF pendingWidgets[s] = <<>>
           THEN /\ Steps(s)[k]'.result = "fail"
                /\ Steps(s)[k]'.status = "error"
                /\ layoutCall' = layoutCall
                /\ ~layoutCall'.returned
                /\ pendingWidgets'[s] = <<>>
           ELSE /\ Steps(s)[k]'.result = "ok"
                /\ Steps(s)[k]'.status = "completed"
                /\ layoutCall'.returned
                /\ layoutCall'.widgets = pendingWidgets[s]
                /\ Len(layoutCall'.result) = Len(pendingWidgets[s])
                /\ \A i \in 1..Len(pendingWidgets[s]) :
                     /\ layoutCall'.result[i].w = pendingWidgets[s][i].w
                     /\ layoutCall'.result[i].h = pendingWidgets[s][i].h]_vars

\* a dashboard of one widget was saved
C33_Witness ==
  \E s \in SessionIds :
    /\ Len(Steps(s)) = 2
    /\ Steps(s)[2].toolName = "save_dashboard"
    /\ Steps(s)[2].result = "ok"
    /\ Len(pendingWidgets[s]) = 1
    /\ layoutCall.returned
    /\ Len(layoutCall.result) = 1

\* C34: a save_dashboard leaves the session's widget buffer as it was (same
\* length, same order, same stored layout of every widget); and a save that
\* follows another save with no widget created in between returns the same
\* packed layout as that one.
C34_SaveLeavesBuffer ==
  [][\A s \in SessionIds, k \in 1..MaxDashboardSteps :
       SaveDashboardReturns(s, k) =>
         /\ pendingWidgets'[s] = pendingWidgets[s]
         /\ (layoutCall.returned /\ Len(layoutCall.widgets) = Len(pendingWidgets[s]))
              => layoutCall'.result = layoutCall.result]_vars

\* two widgets, then two saves one after the other
C34_Witness ==
  \E s \in SessionIds :
    /\ Len(Steps(s)) = 4
    /\ Steps(s)[3].toolName = "save_dashboard" /\ Steps(s)[3].result = "ok"
    /\ Steps(s)[4].toolName = "save_dashboard" /\ Steps(s)[4].result = "ok"
    /\ Len(pendingWidgets[s]) = 2
    /\ layoutCall.result[2].x > 0
    /\ pendingWidgets[s][2].x = 0

\* C35: whatever integer limit sample_data is given, the row limit written
\* into the SELECT lies in 1..20.
C35_LimitClamped ==
  (toolRun.returned /\ toolRun.tool = "sample_data") => toolRun.output.limit \in 1..20

\* C36: the rows in an execute_query step's result are the first min(n, 100)
\* of the n rows the adapter returned, in the adapter's order, whether the
\* query ran in the tool or after approval; never more than 100.
C36_RowsTruncated ==
  (toolRun.returned /\ toolRun.tool = "execute_query" /\ toolRun.input.hasFirst) =>
    LET rows == toolRun.input.rows
        out == toolRun.output.rows
    IN  /\ Len(out) = Min(Len(rows), 100)
        /\ Len(out) <= 100
        /\ \A i \in 1..Len(out) : out[i] = rows[i]

C36_Witness ==
  /\ toolRun.returned
  /\ toolRun.tool = "execute_query"
  /\ toolRun.input.via = "approved"
  /\ toolRun.input.hasFirst
  /\ Len(toolRun.input.rows) = 101
  /\ Len(toolRun.output.rows) = 100

\* C37: a chart call is accepted exactly when it has xKey and at least one
\* yKey, a KPI call exactly when it has valueKey; a rejected call leaves the
\* widget buffer as it was and an accepted call appends exactly one widget at
\* its end.
C37_WidgetInputChecked ==
  (toolRun.returned /\ toolRun.tool \in {"create_chart_widget", "create_kpi_widget"}) =>
    LET args == toolRun.input.args
        before == toolRun.input.buffer
        after == toolRun.output.buffer
        complete == IF toolRun.tool = "create_chart_widget"
                      THEN args.xKey /\ args.hasYKeys /\ args.yKeys >= 1
                      ELSE args.valueKey
    IN  /\ toolRun.output.accepted <=> complete
        /\ ~toolRun.output.accepted => after = before
        /\ toolRun.output.accepted =>
             /\ Len(after) = Len(before) + 1
             /\ SubSeq(after, 1, Len(before)) = before

\* C38: the steps of a session are strictly ordered by startedAt: a step at
\* an earlier position has a smaller startedAt than any step after it.
C38_StartedAtStrictlyOrdered ==
  \A s \in SessionIds :
    \A i, j \in 1..Len(clock.startedAt[s]) :
      i < j => clock.startedAt[s][i] < clock.startedAt[s][j]

\* every event broadcast for session s so far has reached the store, and no
\* continuation of the loop is queued
CaughtUp(s) ==
  /\ renderer.delivered[s] = Len(events[s])
  /\ micro = NoSession

\* C39: with the events of the store's session delivered in emission order,
\* whenever the store has caught up (after each delivered event, after each
\* successful approve, decline or cancel from the store) the status of its
\* activeSession is the status the orchestrator holds for that session.
C39_StoreStatusFollows ==
  \A s \in SessionIds :
    (renderer.store.activeSession.id = s /\ CaughtUp(s)) =>
      renderer.store.activeSession.status = session[s].status

\* an event of the five kinds, delivered for session sid in this step while
\* the store's session is another one or none
ForeignDelivery(sid) ==
  /\ renderer'.delivered[sid] = renderer.delivered[sid] + 1
  /\ events[sid][renderer.delivered[sid] + 1].type \in
       {"tool-call", "tool-result", "requires-approval", "text", "complete"}
  /\ renderer.store.activeSession.id # sid

\* C40: a tool-call, tool-result, requires-approval, text or complete event
\* for a session other than the store's activeSession, or delivered while
\* activeSession is null, leaves activeSession, pendingApproval,
\* streamingText and pendingWidgets of the store as they were.
C40_ForeignEventsIgnored ==
  [][\A sid \in ConcurrentIds :
       ForeignDelivery(sid) =>
         /\ renderer'.store.activeSession = renderer.store.activeSession
         /\ renderer'.store.pendingApproval = renderer.store.pendingApproval
         /\ renderer'.store.streamingText = renderer.store.streamingText
         /\ renderer'.store.pendingWidgets = renderer.store.pendingWidgets]_vars

\* the store's session is running with nothing buffered although the
\* complete event of the other session, with a widget, has been delivered
C40_Witness ==
  /\ renderer.store.activeSession.id = "s1"
  /\ renderer.store.activeSession.status = "running"
  /\ renderer.store.pendingWidgets = <<>>
  /\ Len(events["s2"]) > 0
  /\ renderer.delivered["s2"] = Len(events["s2"])
  /\ events["s2"][Len(events["s2"])].type = "complete"
  /\ EventWidgets(events["s2"][Len(events["s2"])]) # <<>>

====
